---- MODULE Spec2Model ----
(***************************************************************************)
(* The content-addressable renderer cache of pybeamer/pyradium and the     *)
(* renderers it wraps.                                                      *)
(*                                                                         *)
(* ExecRenderer and LatexFormulaRenderer are modelled from their source.   *)
(* RendererCache (pybeamer/RendererCache.py) and HashTools                 *)
(* (pybeamer/Tools.py) are modelled from the design document, sections     *)
(* 4.2, 5 and 7: key derivation, lookup, render on a miss, publication by  *)
(* create-then-rename, and the treatment of store errors.                  *)
(*                                                                         *)
(* Besides the cache (Spec, SpecSeq, SpecFault) the module holds, each     *)
(* with its own variables and specification: ExecRenderer.render called    *)
(* directly (SpecExec), LatexFormulaRenderer.render and its temporary      *)
(* directory (SpecFormula), RenderedLatexFormula and its JSON file         *)
(* (SpecPersist), PresentationRenderer._search_file (SpecLookup),          *)
(* RenderedPresentation and ImgHook (SpecDeploy) and                       *)
(* PresentationRenderer.render with the TOC directives (SpecPres).         *)
(***************************************************************************)
EXTENDS Integers, Sequences, FiniteSets, TLC

\* Processes sharing the on-disk store.
Procs == {"p1", "p2"}

\* Bound on the number of cache render calls in one behaviour.
MaxCalls == 3

\* Bound on the declared renderer version (version bumps stop there).
MaxVersion == 2

\* The version ExecRenderer.properties declares.
ExecVersion == 1

\* The version LatexFormulaRenderer.properties declares.
LatexVersion == 1

\* LatexFormulaRenderer.__init__ default rendering_dpi.
DefaultRenderingDpi == 600

VARIABLES
    version,      \* renderer name -> version its properties declare
    store,        \* CacheKey -> entry at the final path of the store
    tmp,          \* process -> state of its temporary file in the store
    pc,           \* process -> position inside RendererCache.render
    req,          \* process -> request of its current/last call
    key,          \* process -> CacheKey of its current/last call
    found,        \* process -> what the lookup of this call observed
    rendered,     \* process -> result of the wrapped render in this call
    result,       \* process -> data returned to the caller
    err,          \* process -> exception the call ended with, or "none"
    wfail,        \* process -> persisting failed in this call
    loaded,       \* process -> renderer version of the code it runs
    touched,      \* process -> this call changed what is at a final path
    renderCount,  \* process -> invocations of the wrapped render in this call
    spawnCount,   \* process -> external processes started in this call
    firstPub,     \* CacheKey -> payload first published under it
    calls         \* cache render calls begun so far

\* One direct call of ExecRenderer.render.
VARIABLES
    xcmd,         \* the command of the call, <<>> before it
    xout          \* what the call returned or raised

\* LatexFormulaRenderer.render behind its cache.
VARIABLES
    fpc,          \* position inside LatexFormulaRenderer.render
    freq,         \* property_dict of the current/last call
    fkeys,        \* request -> CacheKey derived for it so far
    tmpfs,        \* temporary directories "pybeamer_formula_*" that exist
    image,        \* what the current/last render returned or raised
    renders       \* formula render calls begun so far

\* A RenderedLatexFormula written to and read from its JSON file.
VARIABLES
    ppc,          \* position: "idle", "new", "written", "read"
    obj,          \* the RenderedLatexFormula x
    okey,         \* x.cachekey
    jsonfile,     \* text of the file x.write_jsonfile produced
    robj          \* the object read_jsonfile returned

\* One call of PresentationRenderer._search_file.
VARIABLES
    sfile,        \* filename looked for
    sdirs,        \* search_dirs
    sout          \* what the call returned or raised

\* A RenderedPresentation and the deploy directory it writes.
VARIABLES
    added_files,  \* RenderedPresentation._added_files
    deployed,     \* destination path -> content of the deployed file
    firstOK,      \* destination path -> content of the first add_file that
                  \* wrote it
    writes,       \* destination path -> number of times it was written
    handled,      \* images ImgHook.handle has deployed
    image_max_dimension,  \* rendering_params.image_max_dimension
    ops           \* calls made on the RenderedPresentation so far

\* PresentationRenderer.render.
VARIABLES
    rpc,                \* position inside render
    presentation,       \* the directives of the presentation
    template_config,    \* the "files" of configuration.json
    todo,               \* what is left of the loop render is in
    renderable_slides,  \* result of _compute_renderable_slides
    rendered_slides,    \* RenderedPresentation._rendered_slides
    toc,                \* RenderedPresentation._toc
    css,                \* RenderedPresentation._css
    slidesAtWrite       \* target file -> slides appended when it was written

cacheVars == <<version, store, tmp, pc, req, key, found, rendered, result, err,
               wfail, loaded, touched, renderCount, spawnCount, firstPub,
               calls>>
execVars == <<xcmd, xout>>
formulaVars == <<fpc, freq, fkeys, tmpfs, image, renders>>
persistVars == <<ppc, obj, okey, jsonfile, robj>>
lookupVars == <<sfile, sdirs, sout>>
deployVars == <<added_files, deployed, firstOK, writes, handled,
                image_max_dimension, ops>>
presVars == <<rpc, presentation, template_config, todo, renderable_slides,
              rendered_slides, toc, css, slidesAtWrite>>

\* The state of everything but the cache and its callers.
unitVars == <<execVars, formulaVars, persistVars, lookupVars, deployVars,
              presVars>>

vars == <<cacheVars, unitVars>>

----------------------------------------------------------------------------
\* Values

NoData == [none |-> TRUE]
NoKey == <<"nokey">>
NoReq == [renderer |-> "none"]

Raise(e) == [exc |-> e, value |-> NoData]
Return(v) == [exc |-> "none", value |-> v]

Put(f, k, v) == [x \in (DOMAIN f) \cup {k} |-> IF x = k THEN v ELSE f[x]]

----------------------------------------------------------------------------
\* The environment: files, permissions and programs.

\* Files that exist, by the path open() is given (relative names are looked
\* up in the working directory, which holds no file named "true").
FilePaths ==
    {"/bin/ls", "/bin/true", "/opt/noexec", "/opt/badinterp",
     "tpl/base/pybeamer.js", "tpl/default/logo.svg", "tpl/default/style.css",
     "tpl/default/pybeamer.css", "inc/a.png", "inc/copy.png", "inc2/a.png", "inc2/b.jpg"}

FileBytes(path) ==
    CASE path = "/bin/ls" -> "ELF:ls"
      [] path = "/bin/true" -> "ELF:true"
      [] path = "/opt/noexec" -> "#!/bin/sh noexec"
      [] path = "/opt/badinterp" -> "#!/nonexistent"
      [] path = "tpl/base/pybeamer.js" -> "JS"
      [] path = "tpl/default/logo.svg" -> "SVG"
      [] path = "tpl/default/style.css" -> "CSS"
      [] path = "tpl/default/pybeamer.css" -> "CSS:style"
      [] path = "inc/a.png" -> "PNG:a"
      [] path = "inc/copy.png" -> "PNG:a"
      [] path = "inc2/a.png" -> "PNG:a2"
      [] path = "inc2/b.jpg" -> "JPG:b"
      [] OTHER -> "ENOENT"

\* Files with the execute permission bit.
ExecutableBit == {"/bin/ls", "/bin/true", "/opt/badinterp"}

\* execvp: a name with a slash is used as is, a bare name is searched on PATH.
PathSearch(name) ==
    CASE name \in FilePaths -> name
      [] name = "true" -> "/bin/true"
      [] OTHER -> "ENOENT"

\* What the program with these bytes does when run with this argv.
ProgramRun(bytes, argv) ==
    CASE bytes = "ELF:true" -> [returncode |-> 0, stdout |-> "", stderr |-> ""]
      [] bytes = "ELF:ls" /\ argv = <<"/bin/ls", "/">> ->
            [returncode |-> 0, stdout |-> "bin etc", stderr |-> ""]
      [] bytes = "ELF:ls" /\ argv = <<"/bin/ls", "-l", "/">> ->
            [returncode |-> 0, stdout |-> "drwxr-xr-x bin etc", stderr |-> ""]
      [] OTHER -> [returncode |-> 2, stdout |-> "", stderr |-> "cannot access"]

\* subprocess.run(cmd, stdout = PIPE, stderr = PIPE)
subprocess_run(cmd) ==
    LET file == PathSearch(cmd[1])
    IN  IF file = "ENOENT" THEN Raise("FileNotFoundError")
        ELSE IF file \notin ExecutableBit THEN Raise("PermissionError")
        ELSE IF FileBytes(file) = "#!/nonexistent" THEN Raise("FileNotFoundError")
        ELSE Return(ProgramRun(FileBytes(file), cmd))

\* Whether subprocess.run started a process for cmd.
Spawns(cmd) == subprocess_run(cmd).exc = "none"

\* HashTools.hash_file(filename): digest of the bytes of the file.
hash_file(filename) ==
    IF filename \in FilePaths THEN Return(<<"digest", FileBytes(filename)>>)
    ELSE Raise("FileNotFoundError")

----------------------------------------------------------------------------
\* ExecRenderer

ExecRenderer_name == "exec"

\* A renderer whose properties do not follow its logic version.
ExecRenderer_properties_stale == [version |-> ExecVersion]

ExecRenderer_properties == [version |-> version["exec"]]

\* A rendering key that also covers the arguments of the command.
ExecRenderer_rendering_key_args(property_dict) ==
    LET cmd == property_dict.cmd
        h == hash_file(cmd[1])
    IN  IF h.exc # "none" THEN h
        ELSE Return([srchash |-> h.value, args |-> Tail(cmd)])

\* A rendering key that does not depend on the file at all.
ExecRenderer_rendering_key_const(property_dict) ==
    LET cmd == property_dict.cmd
        h == hash_file(cmd[1])
    IN  IF h.exc # "none" THEN h
        ELSE Return([srchash |-> <<"digest", "">>])

ExecRenderer_rendering_key(property_dict) ==
    LET cmd == property_dict.cmd
        h == hash_file(cmd[1])
    IN  IF h.exc # "none" THEN h
        ELSE Return([srchash |-> h.value])

\* A render that does not look at the return code.
ExecRenderer_render_norc(property_dict) ==
    LET cmd == property_dict.cmd
        proc == subprocess_run(cmd)
    IN  IF proc.exc = "PermissionError"
            THEN Raise("FailedToExecuteSubprocessException")
        ELSE IF proc.exc # "none" THEN Raise(proc.exc)
        ELSE Return([cmd |-> cmd,
                     stdout |-> proc.value.stdout,
                     stderr |-> proc.value.stderr])

ExecRenderer_render(property_dict) ==
    LET cmd == property_dict.cmd
        proc == subprocess_run(cmd)
    IN  IF proc.exc = "PermissionError"
            THEN Raise("FailedToExecuteSubprocessException")
        ELSE IF proc.exc # "none" THEN Raise(proc.exc)
        ELSE IF proc.value.returncode # 0
            THEN Raise("FailedToExecuteSubprocessException")
        ELSE Return([cmd |-> cmd,
                     stdout |-> proc.value.stdout,
                     stderr |-> proc.value.stderr])

----------------------------------------------------------------------------
\* LatexFormulaRenderer

LatexFormulaRenderer_name == "latex"

LatexFormulaRenderer_properties ==
    [version |-> version["latex"], rendering_dpi |-> DefaultRenderingDpi]

\* BaseRenderer.rendering_key, which LatexFormulaRenderer does not override:
\* the entire request.
BaseRenderer_rendering_key(property_dict) == Return(property_dict)

\* property_dict.get("short", False)
GetShort(property_dict) ==
    IF "short" \in DOMAIN property_dict THEN property_dict.short ELSE FALSE

\* The document body written into formula.tex.
TexContent(property_dict) ==
    IF GetShort(property_dict)
        THEN <<"$", "\\rule{1mm}{1pt} \\hspace{2mm}", property_dict.formula, "$">>
        ELSE <<"\\[", "\\rule{1mm}{1pt} \\hspace{2mm}", property_dict.formula, " \\]">>

\* pdflatex and convert are deterministic in the document and the density.
LatexFormulaRenderer_render(property_dict) ==
    LET content == TexContent(property_dict)
    IN  Return([png_data |-> <<"png", content, DefaultRenderingDpi>>,
                info |-> <<"info", content, DefaultRenderingDpi>>])

----------------------------------------------------------------------------
\* Requests

ExecCmds ==
    { <<"/bin/ls", "/">>, <<"/bin/ls", "-l", "/">>, <<"/bin/ls", "/missing">>,
      <<"true">>, <<"/opt/noexec">> }

LatexArgs == { [formula |-> "x^2"] }

Requests ==
    { [renderer |-> ExecRenderer_name, args |-> [cmd |-> c]] : c \in ExecCmds }
    \cup
    { [renderer |-> LatexFormulaRenderer_name, args |-> a] : a \in LatexArgs }

Renderers == {ExecRenderer_name, LatexFormulaRenderer_name}

\* Requests whose entry may be the damaged one in a store that has one.
DamagedRequests ==
    { [renderer |-> ExecRenderer_name, args |-> [cmd |-> <<"/bin/ls", "/">>]],
      [renderer |-> LatexFormulaRenderer_name, args |-> [formula |-> "x^2"]] }

----------------------------------------------------------------------------
\* RendererCache

RendererProperties(name) ==
    IF name = ExecRenderer_name THEN ExecRenderer_properties
    ELSE LatexFormulaRenderer_properties

RenderingKey(name, property_dict) ==
    IF name = ExecRenderer_name THEN ExecRenderer_rendering_key(property_dict)
    ELSE BaseRenderer_rendering_key(property_dict)

RendererRender(name, property_dict) ==
    IF name = ExecRenderer_name THEN ExecRenderer_render(property_dict)
    ELSE LatexFormulaRenderer_render(property_dict)

\* KeyMaterial = {name, properties, rendering_key(request)}
KeyMaterial(name, property_dict) ==
    [name |-> name,
     properties |-> RendererProperties(name),
     rendering_key |-> RenderingKey(name, property_dict).value]

\* The digest of the canonical serialisation; collisions are not modelled.
CacheKey(km) == <<"digest", km>>

NoEntry == [state |-> "none", data |-> NoData, logic |-> 0]
EntryAt(k) == IF k \in DOMAIN store THEN store[k] ELSE NoEntry

Artifact(k, data, logic) == [keyhash |-> k, data |-> data, logic |-> logic]
NoArtifact == Artifact(NoKey, NoData, 0)

\* Renderers registered without a cache around them.
Wrapped_bare(name) == FALSE

\* Whether the renderer of this name is used through a RendererCache:
\* "latex" and "img" in PresentationRenderer._custom_renderers, "exec" where
\* ExecRenderer is run.
Wrapped(name) == name \in {"latex", "img", "exec"}

\* A lookup that lets a StoreReadError fail the call.
LookupOutcome_strict(entry) ==
    CASE entry.state = "complete" -> "hit"
      [] entry.state = "none" -> "miss"
      [] OTHER -> "error"

\* Step 4: an entry that exists and deserialises is a hit; no entry is a
\* miss; an entry that does not deserialise (StoreReadError) is a miss too.
LookupOutcome(entry) ==
    CASE entry.state = "complete" -> "hit"
      [] entry.state = "none" -> "miss"
      [] OTHER -> "miss"

\* A write that goes straight to the final path.
WriteTarget_inplace == "final"

\* Where the serialised entry is written before it is published.
WriteTarget == "tmp"

\* A rename issued before the write of the temporary file has finished.
PublishedEntry_early(p) == [state |-> "partial", data |-> NoData, logic |-> 0]

\* What the rename puts at the final path.
PublishedEntry(p) ==
    [state |-> "complete", data |-> rendered[p], logic |-> loaded[p]]

\* A call that returns nothing when it has just rendered.
FreshArtifact_lost(p) == NoArtifact

\* Step 7: the freshly computed artifact.
FreshArtifact(p) == Artifact(key[p], rendered[p], loaded[p])

----------------------------------------------------------------------------
\* The units outside the cache before anything has been called on them.

\* No outcome yet.
Pending == [exc |-> "pending", value |-> NoData]

\* No RenderedLatexFormula.
NoObj == [formula |-> "", png_data |-> <<>>, image_info |-> <<>>,
          rendering_parameters |-> <<>>]

\* A TOC attribute that has never been assigned (TOC.__init__ sets none).
Unset == "(unset)"

EmptyMap == [x \in {} |-> 0]

ExecIdle == xcmd = <<>> /\ xout = Pending

FormulaIdle ==
    /\ fpc = "idle"
    /\ freq = NoReq
    /\ fkeys = EmptyMap
    /\ tmpfs = {}
    /\ image = Pending
    /\ renders = 0

PersistIdle ==
    /\ ppc = "idle"
    /\ obj = NoObj
    /\ okey = NoKey
    /\ jsonfile = <<>>
    /\ robj = NoObj

LookupIdle == sfile = "" /\ sdirs = <<>> /\ sout = Pending

\* Bounds rendering_params.image_max_dimension is drawn from.
MaxDimensions == {640, 1920}

\* RenderedPresentation(renderer, deploy_directory) for a renderer whose
\* rendering_params.image_max_dimension is max_dimension.
DeployNew(max_dimension) ==
    /\ added_files = {}
    /\ deployed = EmptyMap
    /\ firstOK = EmptyMap
    /\ writes = EmptyMap
    /\ handled = {}
    /\ image_max_dimension = max_dimension
    /\ ops = 0

DeployIdle == DeployNew(1920)

\* PresentationRenderer(presentation, rendering_params) for a template whose
\* configuration.json lists these files, and the RenderedPresentation its
\* render creates.
PresNew(directives, files) ==
    /\ rpc = "idle"
    /\ presentation = directives
    /\ template_config = files
    /\ todo = <<>>
    /\ renderable_slides = <<>>
    /\ rendered_slides = <<>>
    /\ toc = [chapter |-> Unset, section |-> Unset, subsection |-> Unset]
    /\ css = {}
    /\ slidesAtWrite = EmptyMap

PresIdle == PresNew(<<>>, [static |-> <<>>, css |-> <<>>])

UnitsIdle ==
    /\ ExecIdle
    /\ FormulaIdle
    /\ PersistIdle
    /\ LookupIdle
    /\ DeployIdle
    /\ PresIdle

----------------------------------------------------------------------------
\* State machine

\* The cache with an empty store and no call made.
CacheInit ==
    /\ version = [n \in Renderers |-> IF n = ExecRenderer_name THEN ExecVersion
                                      ELSE LatexVersion]
    /\ store = [x \in {} |-> NoEntry]
    /\ tmp = [p \in Procs |-> "none"]
    /\ pc = [p \in Procs |-> "idle"]
    /\ req = [p \in Procs |-> NoReq]
    /\ key = [p \in Procs |-> NoKey]
    /\ found = [p \in Procs |-> "none"]
    /\ rendered = [p \in Procs |-> NoData]
    /\ result = [p \in Procs |-> NoArtifact]
    /\ err = [p \in Procs |-> "none"]
    /\ wfail = [p \in Procs |-> FALSE]
    /\ loaded = [p \in Procs |-> 0]
    /\ touched = [p \in Procs |-> FALSE]
    /\ renderCount = [p \in Procs |-> 0]
    /\ spawnCount = [p \in Procs |-> 0]
    /\ firstPub = [x \in {} |-> NoData]
    /\ calls = 0

Init == CacheInit /\ UnitsIdle

\* A store that already holds one entry that does not deserialise (written by
\* an older schema, or damaged on disk).
InitFault ==
    /\ version = [n \in Renderers |-> IF n = ExecRenderer_name THEN ExecVersion
                                      ELSE LatexVersion]
    /\ \E r \in DamagedRequests :
          /\ store = Put([x \in {} |-> NoEntry],
                         CacheKey(KeyMaterial(r.renderer, r.args)),
                         [state |-> "corrupt", data |-> NoData, logic |-> 0])
    /\ tmp = [p \in Procs |-> "none"]
    /\ pc = [p \in Procs |-> "idle"]
    /\ req = [p \in Procs |-> NoReq]
    /\ key = [p \in Procs |-> NoKey]
    /\ found = [p \in Procs |-> "none"]
    /\ rendered = [p \in Procs |-> NoData]
    /\ result = [p \in Procs |-> NoArtifact]
    /\ err = [p \in Procs |-> "none"]
    /\ wfail = [p \in Procs |-> FALSE]
    /\ loaded = [p \in Procs |-> 0]
    /\ touched = [p \in Procs |-> FALSE]
    /\ renderCount = [p \in Procs |-> 0]
    /\ spawnCount = [p \in Procs |-> 0]
    /\ firstPub = [x \in {} |-> NoData]
    /\ calls = 0
    /\ UnitsIdle

Resting(p) == pc[p] \in {"idle", "done", "failed"}

\* RendererCache.render, steps 1 to 4: derive the key and look it up.
Call(p, r) ==
    /\ Resting(p)
    /\ calls < MaxCalls
    /\ calls' = calls + 1
    /\ req' = [req EXCEPT ![p] = r]
    /\ loaded' = [loaded EXCEPT ![p] = version[r.renderer]]
    /\ rendered' = [rendered EXCEPT ![p] = NoData]
    /\ wfail' = [wfail EXCEPT ![p] = FALSE]
    /\ touched' = [touched EXCEPT ![p] = FALSE]
    /\ renderCount' = [renderCount EXCEPT ![p] = 0]
    /\ spawnCount' = [spawnCount EXCEPT ![p] = 0]
    /\ LET rk == RenderingKey(r.renderer, r.args)
           k == CacheKey(KeyMaterial(r.renderer, r.args))
       IN  IF rk.exc # "none"
           THEN /\ pc' = [pc EXCEPT ![p] = "failed"]
                /\ err' = [err EXCEPT ![p] = rk.exc]
                /\ key' = [key EXCEPT ![p] = NoKey]
                /\ found' = [found EXCEPT ![p] = "none"]
                /\ result' = [result EXCEPT ![p] = NoArtifact]
           ELSE /\ key' = [key EXCEPT ![p] = k]
                /\ found' = [found EXCEPT ![p] = EntryAt(k).state]
                /\ IF Wrapped(r.renderer) /\ LookupOutcome(EntryAt(k)) = "hit"
                   THEN /\ pc' = [pc EXCEPT ![p] = "done"]
                        /\ err' = [err EXCEPT ![p] = "none"]
                        /\ result' = [result EXCEPT ![p] =
                              Artifact(k, EntryAt(k).data, EntryAt(k).logic)]
                   ELSE IF Wrapped(r.renderer)
                           /\ LookupOutcome(EntryAt(k)) = "error"
                   THEN /\ pc' = [pc EXCEPT ![p] = "failed"]
                        /\ err' = [err EXCEPT ![p] = "StoreReadError"]
                        /\ result' = [result EXCEPT ![p] = NoArtifact]
                   ELSE /\ pc' = [pc EXCEPT ![p] = "render"]
                        /\ err' = [err EXCEPT ![p] = "none"]
                        /\ result' = [result EXCEPT ![p] = NoArtifact]
    /\ UNCHANGED <<version, store, tmp, firstPub>>
    /\ UNCHANGED unitVars

\* Step 5: the wrapped renderer's render on a miss.
Render(p) ==
    /\ pc[p] = "render"
    /\ renderCount' = [renderCount EXCEPT ![p] = @ + 1]
    /\ spawnCount' = [spawnCount EXCEPT ![p] =
                        IF req[p].renderer = ExecRenderer_name
                           /\ Spawns(req[p].args.cmd)
                        THEN @ + 1 ELSE @]
    /\ LET r == RendererRender(req[p].renderer, req[p].args)
       IN  IF r.exc # "none"
           THEN /\ pc' = [pc EXCEPT ![p] = "failed"]
                /\ err' = [err EXCEPT ![p] = r.exc]
                /\ UNCHANGED rendered
           ELSE /\ pc' = [pc EXCEPT ![p] = "write"]
                /\ rendered' = [rendered EXCEPT ![p] = r.value]
                /\ UNCHANGED err
    /\ UNCHANGED <<version, store, tmp, req, key, found, result, wfail, loaded,
                   touched, firstPub, calls>>
    /\ UNCHANGED unitVars

\* Step 6, first half: create the serialised entry; it is incomplete until
\* the write has finished.
WriteTmp(p) ==
    /\ pc[p] = "write"
    /\ pc' = [pc EXCEPT ![p] = "rename"]
    /\ IF WriteTarget = "tmp"
       THEN /\ tmp' = [tmp EXCEPT ![p] = "partial"]
            /\ UNCHANGED <<store, touched>>
       ELSE /\ store' = Put(store, key[p],
                            [state |-> "partial", data |-> NoData, logic |-> 0])
            /\ touched' = [touched EXCEPT ![p] = TRUE]
            /\ UNCHANGED tmp
    /\ UNCHANGED <<version, req, key, found, rendered, result, err, wfail,
                   loaded, renderCount, spawnCount, firstPub, calls>>
    /\ UNCHANGED unitVars

\* Step 6, second half, and step 7: finish the write, rename the temporary
\* file onto the final path (replacing what is there) and return.
Publish(p) ==
    /\ pc[p] = "rename"
    /\ pc' = [pc EXCEPT ![p] = "done"]
    /\ store' = Put(store, key[p], PublishedEntry(p))
    /\ tmp' = [tmp EXCEPT ![p] = "none"]
    /\ touched' = [touched EXCEPT ![p] = TRUE]
    /\ firstPub' = IF key[p] \in DOMAIN firstPub THEN firstPub
                   ELSE Put(firstPub, key[p], PublishedEntry(p).data)
    /\ result' = [result EXCEPT ![p] = FreshArtifact(p)]
    /\ UNCHANGED <<version, req, key, found, rendered, err, wfail, loaded,
                   renderCount, spawnCount, calls>>
    /\ UNCHANGED unitVars

\* StoreWriteError: creating, writing or renaming the temporary file fails;
\* the temporary file is removed and the fresh artifact is still returned.
WriteFail(p) ==
    /\ pc[p] \in {"write", "rename"}
    /\ pc' = [pc EXCEPT ![p] = "done"]
    /\ wfail' = [wfail EXCEPT ![p] = TRUE]
    /\ tmp' = [tmp EXCEPT ![p] = "none"]
    /\ result' = [result EXCEPT ![p] = FreshArtifact(p)]
    /\ UNCHANGED <<version, store, req, key, found, rendered, err, loaded,
                   touched, renderCount, spawnCount, firstPub, calls>>
    /\ UNCHANGED unitVars

\* A release of the program in which a renderer's logic, and with it the
\* version its properties declare, has changed.
BumpVersion(n) ==
    /\ version[n] < MaxVersion
    /\ version' = [version EXCEPT ![n] = version[n] + 1]
    /\ UNCHANGED <<store, tmp, pc, req, key, found, rendered, result, err,
                   wfail, loaded, touched, renderCount, spawnCount, firstPub,
                   calls>>
    /\ UNCHANGED unitVars

Next ==
    \/ \E p \in Procs, r \in Requests : Call(p, r)
    \/ \E p \in Procs : Render(p)
    \/ \E p \in Procs : WriteTmp(p)
    \/ \E p \in Procs : Publish(p)
    \/ \E p \in Procs : WriteFail(p)
    \/ \E n \in Renderers : BumpVersion(n)

Spec == Init /\ [][Next]_vars

\* Calls that do not overlap: a call begins only when no other is in progress.
NextSeq ==
    \/ \E p \in Procs, r \in Requests :
          (\A q \in Procs : Resting(q)) /\ Call(p, r)
    \/ \E p \in Procs : Render(p)
    \/ \E p \in Procs : WriteTmp(p)
    \/ \E p \in Procs : Publish(p)
    \/ \E p \in Procs : WriteFail(p)
    \/ \E n \in Renderers : BumpVersion(n)

SpecSeq == Init /\ [][NextSeq]_vars

SpecFault == InitFault /\ [][Next]_vars

----------------------------------------------------------------------------
\* Properties

Active(p) == pc[p] \in {"render", "write", "rename"}
Hit(p) == pc[p] = "done" /\ found[p] = "complete"
KeyName(k) == k[2].name
KeyVersion(k) == k[2].properties.version
IsExec(p) == req[p].renderer = ExecRenderer_name

\* C1: when calls do not overlap, once an entry has been published under
\* KeyMaterial K, no later call with K takes the miss path, and every such call
\* returns the data first published under K, with keyhash K, without invoking
\* the wrapped render.
C1_HitAfterPublish ==
    \A p \in Procs :
        /\ Active(p) => key[p] \notin DOMAIN firstPub
        /\ Hit(p) =>
              /\ key[p] \in DOMAIN firstPub
              /\ renderCount[p] = 0
              /\ result[p].keyhash = key[p]
              /\ result[p].data = firstPub[key[p]]

\* A call was served from an entry that an earlier call published.
C1_Witness ==
    \E p \in Procs :
        /\ Hit(p)
        /\ key[p] \in DOMAIN firstPub
        /\ result[p].data = firstPub[key[p]]
        /\ renderCount[p] = 0

\* What subprocess.run gives for the command of a stored exec payload.
RunOf(data) == subprocess_run(data.cmd)

\* C2: a call whose wrapped render raised ends in that error, returns nothing,
\* has changed no final path of the store and leaves no temporary file; and no
\* entry of the store holds the output of a command that could not be started
\* or exited non-zero (a failure is never cached), so the request's key is
\* still a miss for the call's own request.
C2_FailureNotCached ==
    /\ \A p \in Procs :
          (pc[p] = "failed" /\ renderCount[p] = 1) =>
              /\ err[p] # "none"
              /\ result[p] = NoArtifact
              /\ ~touched[p]
              /\ tmp[p] = "none"
              /\ (IsExec(p) /\ key[p] \in DOMAIN store) =>
                    store[key[p]].data.cmd # req[p].args.cmd
    /\ \A k \in DOMAIN store :
          KeyName(k) = ExecRenderer_name =>
              /\ RunOf(store[k].data).exc = "none"
              /\ RunOf(store[k].data).value.returncode = 0

\* A call has ended in the error its render raised.
C2_Witness ==
    \E p \in Procs :
        /\ pc[p] = "failed"
        /\ renderCount[p] = 1
        /\ err[p] = "FailedToExecuteSubprocessException"
        /\ key[p] \notin DOMAIN store

\* C3: no final path of the store ever holds a partially written entry, and
\* every lookup has observed either no entry or a complete one, while
\* publishers hold partially written temporary files.
C3_NoPartialEntry ==
    /\ \A k \in DOMAIN store : store[k].state = "complete"
    /\ \A p \in Procs : found[p] \in {"none", "complete"}

\* A reader was served a complete entry of a key while another process holds a
\* partially written temporary file for the same key.
C3_Witness ==
    \E p, q \in Procs :
        /\ p # q
        /\ tmp[p] = "partial"
        /\ key[q] = key[p]
        /\ Hit(q)

\* The result ExecRenderer.render owes for a command that runs and exits 0.
OutputOf(cmd) ==
    [cmd |-> cmd,
     stdout |-> subprocess_run(cmd).value.stdout,
     stderr |-> subprocess_run(cmd).value.stderr]

\* C4 as stated: in every reachable state the payload stored under a key
\* equals the payload first published under that key.
C4_NeverMutated ==
    \A k \in DOMAIN firstPub :
        k \in DOMAIN store /\ store[k].data = firstPub[k]

\* C4 as amended: an entry stays at its key once published and is always a
\* complete payload that render produced for a request with this KeyMaterial;
\* it is written only by calls whose lookup found no entry; it equals the
\* payload first published unless it comes from a request that differs from
\* the first one in fields outside rendering_key (the exec arguments).
C4_ReplacedOnlyByRacer ==
    /\ \A k \in DOMAIN firstPub : k \in DOMAIN store
    /\ \A k \in DOMAIN store :
          /\ store[k].state = "complete"
          /\ k \in DOMAIN firstPub
          /\ KeyName(k) = ExecRenderer_name =>
                /\ k[2].rendering_key =
                      [srchash |-> <<"digest", FileBytes(store[k].data.cmd[1])>>]
                /\ RunOf(store[k].data).exc = "none"
                /\ store[k].data = OutputOf(store[k].data.cmd)
                /\ store[k].data.cmd = firstPub[k].cmd =>
                      store[k].data = firstPub[k]
          /\ KeyName(k) # ExecRenderer_name => store[k].data = firstPub[k]
    /\ \A p \in Procs : Active(p) => found[p] = "none"

\* The entry of a key has been replaced by a payload that differs from the one
\* first published under the key.
C4_Witness ==
    \E k \in DOMAIN store :
        /\ k \in DOMAIN firstPub
        /\ store[k].state = "complete"
        /\ store[k].data # firstPub[k]

\* Two processes have both missed on the same key, rendered and published.
Raced(p, q) ==
    /\ p # q
    /\ pc[p] = "done" /\ pc[q] = "done"
    /\ found[p] = "none" /\ found[q] = "none"
    /\ ~wfail[p] /\ ~wfail[q]
    /\ key[p] = key[q]

\* C5 as stated: after a race on the same miss the store holds one complete
\* entry for the key, equivalent to what each process computed, and both
\* callers received equivalent artifacts with the same keyhash.
C5_RaceBenign ==
    \A p, q \in Procs :
        Raced(p, q) =>
            /\ key[p] \in DOMAIN store
            /\ store[key[p]].state = "complete"
            /\ store[key[p]].data = result[p].data
            /\ store[key[p]].data = result[q].data
            /\ result[p].keyhash = result[q].keyhash

\* C5 as amended: after a race on the same miss the store holds one complete
\* entry for the key, which is the payload of one of the two processes; each
\* caller received its own render output under the same keyhash; the three are
\* equal when the two requests are equal.
C5_RaceOneEntry ==
    \A p, q \in Procs :
        Raced(p, q) =>
            /\ key[p] \in DOMAIN store
            /\ store[key[p]].state = "complete"
            /\ store[key[p]].data \in {result[p].data, result[q].data}
            /\ result[p].keyhash = key[p] /\ result[q].keyhash = key[p]
            /\ result[p].data = rendered[p] /\ result[q].data = rendered[q]
            /\ req[p] = req[q] =>
                  /\ result[p].data = result[q].data
                  /\ store[key[p]].data = result[p].data

\* Two processes have raced on the same miss with equal requests.
C5_Witness ==
    \E p, q \in Procs : Raced(p, q) /\ req[p] = req[q]

\* C6: a call that has returned was made under a key that names the version
\* of the renderer the caller runs, and the artifact it returned was rendered
\* by that version: an entry of an older version is never returned.
C6_NoStaleHit ==
    \A p \in Procs :
        pc[p] = "done" =>
            /\ KeyVersion(key[p]) = loaded[p]
            /\ result[p].logic = loaded[p]

\* After a version bump a call has missed and rendered although the store
\* holds the entry of the same renderer and rendering key at the old version.
C6_Witness ==
    \E p \in Procs :
        /\ pc[p] = "done"
        /\ renderCount[p] = 1
        /\ \E k \in DOMAIN store :
              /\ KeyName(k) = KeyName(key[p])
              /\ k[2].rendering_key = key[p][2].rendering_key
              /\ KeyVersion(k) < loaded[p]

\* A call has returned after its persisting failed following a successful
\* render.
WriteFailed(p) == pc[p] = "done" /\ wfail[p]

\* What C7 says of the failed call itself: it has succeeded and returned the
\* artifact it just rendered with its keyhash; it has changed no final path and
\* left no temporary file, and what is at its key is nothing or a complete
\* entry.
ReturnedFresh(p) ==
    /\ err[p] = "none"
    /\ renderCount[p] = 1
    /\ result[p] =
          Artifact(key[p],
                   RendererRender(req[p].renderer, req[p].args).value,
                   loaded[p])
    /\ ~touched[p]
    /\ tmp[p] = "none"
    /\ key[p] \in DOMAIN store => store[key[p]].state = "complete"

\* C7 as stated: the call whose persisting failed returns its fresh artifact,
\* and when calls do not overlap another call with the same KeyMaterial that
\* missed has returned data equal to that artifact's data.
C7_LaterCallEquivalent ==
    \A p \in Procs :
        WriteFailed(p) =>
            /\ ReturnedFresh(p)
            /\ \A q \in Procs \ {p} :
                  (pc[q] = "done" /\ key[q] = key[p] /\ found[q] = "none") =>
                      result[q].data = result[p].data

\* C7 as amended: the call whose persisting failed returns its fresh artifact;
\* when calls do not overlap, calls with the same KeyMaterial keep missing
\* until one of them publishes, each such miss renders once and returns its own
\* render output, which equals the first call's data when the two requests
\* are equal.
C7_WriteFailureReturnsArtifact ==
    \A p \in Procs :
        WriteFailed(p) =>
            /\ ReturnedFresh(p)
            /\ \A q \in Procs \ {p} :
                  /\ (key[q] = key[p] /\ key[p] \notin DOMAIN firstPub
                        /\ pc[q] # "failed") => found[q] = "none"
                  /\ (pc[q] = "done" /\ key[q] = key[p] /\ found[q] = "none") =>
                        /\ renderCount[q] = 1
                        /\ result[q].data = rendered[q]
                        /\ req[q] = req[p] => result[q].data = result[p].data

\* A call has returned after its persisting failed, its key has no entry, and
\* another call with the same request has missed and returned.
C7_Witness ==
    \E p \in Procs :
        /\ WriteFailed(p)
        /\ key[p] \notin DOMAIN store
        /\ result[p].data = rendered[p]
        /\ \E q \in Procs \ {p} :
              /\ pc[q] = "done" /\ key[q] = key[p] /\ found[q] = "none"
              /\ req[q] = req[p]

\* C8: a call whose lookup found an entry that does not deserialise does not
\* end in a StoreReadError: it invokes the wrapped render exactly once and
\* returns what that render returned (or ends in what that render raised).
C8_CorruptIsMiss ==
    \A p \in Procs :
        found[p] = "corrupt" =>
            /\ err[p] # "StoreReadError"
            /\ pc[p] # "idle"
            /\ pc[p] = "done" =>
                  /\ renderCount[p] = 1
                  /\ result[p] =
                        Artifact(key[p],
                                 RendererRender(req[p].renderer,
                                                req[p].args).value,
                                 loaded[p])
            /\ pc[p] = "failed" =>
                  /\ renderCount[p] = 1
                  /\ err[p] =
                        RendererRender(req[p].renderer, req[p].args).exc

\* A call that found a damaged entry has rendered once and returned.
C8_Witness ==
    \E p \in Procs :
        /\ found[p] = "corrupt"
        /\ pc[p] = "done"
        /\ renderCount[p] = 1
        /\ result[p].data = rendered[p]

ExecRequests == { r \in Requests : r.renderer = ExecRenderer_name }

\* The executable file of an exec request has bytes that can be hashed.
Hashable(r) == r.args.cmd[1] \in FilePaths

\* C9: exec requests with the same executable bytes have the same CacheKey
\* whatever their arguments; when calls do not overlap, a call for an
\* executable whose entry is published never renders, and a hit returns the
\* cmd, stdout and stderr first published, spawning no process.
C9_ArgsNotInKey ==
    /\ \A r1, r2 \in ExecRequests :
          (Hashable(r1) /\ Hashable(r2)
             /\ FileBytes(r1.args.cmd[1]) = FileBytes(r2.args.cmd[1])) =>
              CacheKey(KeyMaterial(r1.renderer, r1.args))
                 = CacheKey(KeyMaterial(r2.renderer, r2.args))
    /\ \A p \in Procs :
          (IsExec(p) /\ Hit(p)) =>
              /\ spawnCount[p] = 0
              /\ renderCount[p] = 0
              /\ key[p] \in DOMAIN firstPub
              /\ result[p].data = firstPub[key[p]]
              /\ FileBytes(result[p].data.cmd[1]) = FileBytes(req[p].args.cmd[1])
    /\ \A p \in Procs :
          (IsExec(p) /\ Active(p)) =>
              ~ \E k \in DOMAIN firstPub :
                    /\ KeyName(k) = ExecRenderer_name
                    /\ KeyVersion(k) = loaded[p]
                    /\ FileBytes(firstPub[k].cmd[1])
                          = FileBytes(req[p].args.cmd[1])

\* A call was served the output of the same executable run with other
\* arguments.
C9_Witness ==
    \E p \in Procs :
        /\ IsExec(p)
        /\ Hit(p)
        /\ result[p].data.cmd # req[p].args.cmd
        /\ result[p].data.cmd[1] = req[p].args.cmd[1]
        /\ spawnCount[p] = 0

\* C10 as stated: a call for {cmd: ["true"]} that has ended has succeeded with
\* stdout = "" and stderr = "", and when it was served from the store it
\* spawned no process.
C10_BareTrueSucceeds ==
    \A p \in Procs :
        (IsExec(p) /\ req[p].args.cmd = <<"true">> /\ Resting(p)) =>
            /\ pc[p] = "done"
            /\ err[p] = "none"
            /\ result[p].data.stdout = ""
            /\ result[p].data.stderr = ""
            /\ Hit(p) => spawnCount[p] = 0

----------------------------------------------------------------------------
\* RenderedLatexFormula

\* Bound on the number of items of rendering_parameters.
MaxParams == 2

\* Bound on the length of png_data.
MaxBytes == 3

\* A Python dict is the sequence of its (key, value) items in insertion order,
\* with distinct keys; a Python scalar is the pair of its type and its repr.
PyBool(b) == <<"bool", IF b THEN "True" ELSE "False">>
PyInt(digits) == <<"int", digits>>
PyStr(text) == <<"str", text>>

Range(seq) == { seq[i] : i \in 1..Len(seq) }

\* dict == dict: the same items, in any order.
DictEq(a, b) == Range(a) = Range(b)

\* Items rendering_parameters is made of.
ParamItems ==
    { <<"short", PyBool(TRUE)>>, <<"short", PyBool(FALSE)>>,
      <<"rendering_dpi", PyInt("600")>>, <<"border", PyStr("1mm")>> }

DistinctKeys(seq) ==
    \A i, j \in 1..Len(seq) : i # j => seq[i][1] # seq[j][1]

ParamDicts ==
    { d \in UNION { [1..n -> ParamItems] : n \in 0..MaxParams } :
        DistinctKeys(d) }

\* Position of a key in the order Python compares str by.
KeyRank(k) ==
    CASE k = "border" -> 1
      [] k = "rendering_dpi" -> 2
      [] k = "short" -> 3

RECURSIVE InsertItem(_, _)
InsertItem(item, seq) ==
    IF Len(seq) = 0 THEN <<item>>
    ELSE IF KeyRank(item[1]) < KeyRank(Head(seq)[1]) THEN <<item>> \o seq
    ELSE <<Head(seq)>> \o InsertItem(item, Tail(seq))

\* sorted(rendering_parameters.items()): tuples compare by their key first,
\* and the keys of one dict differ.
RECURSIVE sorted(_)
sorted(items) ==
    IF Len(items) = 0 THEN <<>>
    ELSE InsertItem(items[Len(items)], sorted(SubSeq(items, 1, Len(items) - 1)))

\* A cachekey taken over the items in the order the dict yields them.
calculate_cachekey_unsorted(formula, rendering_parameters) ==
    <<"md5", formula, " || ", rendering_parameters>>

\* md5 over formula + " || " + str(sorted(items)); collisions are not
\* modelled.
calculate_cachekey(formula, rendering_parameters) ==
    <<"md5", formula, " || ", sorted(rendering_parameters)>>

cachekey(x) == calculate_cachekey(x.formula, x.rendering_parameters)

\* base64: three bytes are four sextets; 64 stands for the padding "=".
RECURSIVE b64encode(_)
b64encode(b) ==
    IF Len(b) = 0 THEN <<>>
    ELSE IF Len(b) = 1
        THEN <<b[1] \div 4, (b[1] % 4) * 16, 64, 64>>
    ELSE IF Len(b) = 2
        THEN <<b[1] \div 4, (b[1] % 4) * 16 + b[2] \div 16, (b[2] % 16) * 4, 64>>
    ELSE <<b[1] \div 4, (b[1] % 4) * 16 + b[2] \div 16,
           (b[2] % 16) * 4 + b[3] \div 64, b[3] % 64>>
         \o b64encode(SubSeq(b, 4, Len(b)))

RECURSIVE b64decode(_)
b64decode(c) ==
    IF Len(c) < 4 THEN <<>>
    ELSE (IF c[3] = 64 THEN <<c[1] * 4 + c[2] \div 16>>
          ELSE IF c[4] = 64
              THEN <<c[1] * 4 + c[2] \div 16, (c[2] % 16) * 16 + c[3] \div 4>>
          ELSE <<c[1] * 4 + c[2] \div 16, (c[2] % 16) * 16 + c[3] \div 4,
                 (c[3] % 4) * 64 + c[4]>>)
         \o b64decode(SubSeq(c, 5, Len(c)))

\* json.dump of a scalar: Python's True/False become the literals
\* true/false, an int its digits, a str a quoted string.
JsonOfScalar(v) ==
    CASE v[1] = "bool" -> <<"literal", IF v[2] = "True" THEN "true" ELSE "false">>
      [] v[1] = "int" -> <<"number", v[2]>>
      [] v[1] = "str" -> <<"string", v[2]>>

\* json.load of a scalar.
ScalarOfJson(j) ==
    CASE j[1] = "literal" -> <<"bool", IF j[2] = "true" THEN "True" ELSE "False">>
      [] j[1] = "number" -> <<"int", j[2]>>
      [] j[1] = "string" -> <<"str", j[2]>>

\* json.dump / json.load of a dict of scalars: an object with the members
\* in the order of the items.
JsonOfDict(d) == [i \in 1..Len(d) |-> <<d[i][1], JsonOfScalar(d[i][2])>>]
DictOfJson(o) == [i \in 1..Len(o) |-> <<o[i][1], ScalarOfJson(o[i][2])>>]

\* The text x.write_jsonfile(filename) leaves in the file.
write_jsonfile(x) ==
    [object |-> <<"string", "formula">>,
     formula |-> <<"string", x.formula>>,
     rendering_parameters |-> JsonOfDict(x.rendering_parameters),
     image_info |-> JsonOfDict(x.image_info),
     image |-> <<"string", b64encode(x.png_data)>>]

\* A read_jsonfile that takes the "image" member as the image bytes.
read_jsonfile_raw(json_data) ==
    [formula |-> json_data.formula[2],
     png_data |-> json_data.image[2],
     image_info |-> DictOfJson(json_data.image_info),
     rendering_parameters |-> DictOfJson(json_data.rendering_parameters)]

\* RenderedLatexFormula.read_jsonfile(filename) of a file with this text
\* (its "object" member is "formula").
read_jsonfile(json_data) ==
    [formula |-> json_data.formula[2],
     png_data |-> b64decode(json_data.image[2]),
     image_info |-> DictOfJson(json_data.image_info),
     rendering_parameters |-> DictOfJson(json_data.rendering_parameters)]

Formulas == {"x^2", "\\frac{a}{b}"}

\* Bytes png_data is made of.
PngBytes == {0, 137, 255}

PngDatas == UNION { [1..n -> PngBytes] : n \in 0..MaxBytes }

ImageInfos ==
    { <<<<"width", PyInt("40")>>, <<"height", PyInt("12")>>,
        <<"baseline", PyInt("3")>>>> }

\* RenderedLatexFormula(formula, png_data, image_info, rendering_parameters)
FormulaObjects ==
    [formula : Formulas, png_data : PngDatas, image_info : ImageInfos,
     rendering_parameters : ParamDicts]

notPersist == <<cacheVars, execVars, formulaVars, lookupVars, deployVars,
                presVars>>

\* RenderedLatexFormula.__init__ and the cachekey property.
NewFormula(x) ==
    /\ ppc = "idle"
    /\ ppc' = "new"
    /\ obj' = x
    /\ okey' = cachekey(x)
    /\ UNCHANGED <<jsonfile, robj>>
    /\ UNCHANGED notPersist

\* x.write_jsonfile(filename)
WriteJson ==
    /\ ppc = "new"
    /\ ppc' = "written"
    /\ jsonfile' = write_jsonfile(obj)
    /\ UNCHANGED <<obj, okey, robj>>
    /\ UNCHANGED notPersist

\* RenderedLatexFormula.read_jsonfile(filename), in this or another process.
ReadJson ==
    /\ ppc = "written"
    /\ jsonfile.object = <<"string", "formula">>
    /\ ppc' = "read"
    /\ robj' = read_jsonfile(jsonfile)
    /\ UNCHANGED <<obj, okey, jsonfile>>
    /\ UNCHANGED notPersist

NextPersist ==
    \/ \E x \in FormulaObjects : NewFormula(x)
    \/ WriteJson
    \/ ReadJson

SpecPersist == Init /\ [][NextPersist]_vars

\* The orders the items of a dict can have been inserted in.
Orders(items) ==
    { [i \in 1..Len(items) |-> items[f[i]]] :
        f \in Permutations(1..Len(items)) }

\* C11: the cachekey of a RenderedLatexFormula is a function of its formula
\* and of the set of items of its rendering_parameters alone: deriving it
\* again from the items in any other order gives the same digest.
C11_KeyOrderIndependent ==
    ppc # "idle" =>
        \A perm \in Orders(obj.rendering_parameters) :
            calculate_cachekey(obj.formula, perm) = okey

\* A key was derived from parameters that were not inserted in sorted order.
C11_Witness ==
    /\ ppc # "idle"
    /\ Len(obj.rendering_parameters) = 2
    /\ sorted(obj.rendering_parameters) # obj.rendering_parameters

----------------------------------------------------------------------------
\* File lookup, the image renderer and the RenderedPresentation

\* Bound on the number of calls made on one RenderedPresentation.
MaxOps == 3

\* rendering_params.template_dirs, include_dirs and template_style
template_dirs == <<"tpl">>
include_dirs == <<"inc", "inc2">>
template_style == "default"

\* os.path.isfile(path)
isfile(path) == path \in FilePaths

\* A search that keeps looking after a match and returns the last one.
RECURSIVE _search_file_last(_, _)
_search_file_last(filename, search_dirs) ==
    IF Len(search_dirs) = 0 THEN Raise("FailedToLookupFileException")
    ELSE LET path == search_dirs[Len(search_dirs)] \o "/" \o filename
         IN  IF isfile(path) THEN Return(path)
             ELSE _search_file_last(filename,
                                    SubSeq(search_dirs, 1, Len(search_dirs) - 1))

\* PresentationRenderer._search_file: the loop over search_dirs, then the
\* raise (with either message) when it ends without a return.
RECURSIVE _search_file(_, _)
_search_file(filename, search_dirs) ==
    IF Len(search_dirs) = 0 THEN Raise("FailedToLookupFileException")
    ELSE LET path == Head(search_dirs) \o "/" \o filename
         IN  IF isfile(path) THEN Return(path)
             ELSE _search_file(filename, Tail(search_dirs))

lookup_template_file(filename) == _search_file(filename, template_dirs)
lookup_include(filename) == _search_file(filename, include_dirs)

\* The image renderer (design section 4.4).
ImageRenderer_name == "img"
ImageRenderer_properties == [version |-> 1]

\* rendering_key = content digest of the source file plus the numeric bound.
ImageRenderer_rendering_key(property_dict) ==
    LET h == hash_file(property_dict.src)
    IN  IF h.exc # "none" THEN h
        ELSE Return([srchash |-> h.value,
                     max_dimension |-> property_dict.max_dimension])

\* The output format of an image with these bytes.
Extension(bytes) == IF bytes = "JPG:b" THEN "jpg" ELSE "png"

\* The resized raster and its extension.
ImageRenderer_render(property_dict) ==
    LET bytes == FileBytes(property_dict.src)
    IN  Return([img_data |-> <<"resized", bytes, property_dict.max_dimension>>,
                extension |-> Extension(bytes)])

ImageKeyMaterial(property_dict) ==
    [name |-> ImageRenderer_name,
     properties |-> ImageRenderer_properties,
     rendering_key |-> ImageRenderer_rendering_key(property_dict).value]

\* RendererCache(ImageRenderer()).render(properties): the artifact under the
\* key of the request, stored before or rendered now.
img_renderer_render(property_dict) ==
    Artifact(CacheKey(ImageKeyMaterial(property_dict)),
             ImageRenderer_render(property_dict).value,
             ImageRenderer_properties.version)

\* A deployed name taken from the path of the source.
ImgHook_local_filename_bysrc(properties, rendered_image) ==
    <<"imgs/img/", properties.src, ".", rendered_image.data.extension>>

\* "imgs/img/%s.%s" % (rendered_image.keyhash, rendered_image.data["extension"])
ImgHook_local_filename(properties, rendered_image) ==
    <<"imgs/img/", rendered_image.keyhash, ".", rendered_image.data.extension>>

\* What a call on the RenderedPresentation leaves: _added_files, the files of
\* the deploy directory, the exception it ended with, and whether it wrote.
Outcome(added, files, exc, wrote) ==
    [added |-> added, files |-> files, exc |-> exc, wrote |-> wrote]

\* RenderedPresentation.add_file; ok says whether makedirs, open and write
\* succeed.
add_file(added, files, destination_relpath, content, ok) ==
    IF destination_relpath \in added THEN Outcome(added, files, "none", FALSE)
    ELSE IF ok
        THEN Outcome(added \cup {destination_relpath},
                     Put(files, destination_relpath, content), "none", TRUE)
    ELSE Outcome(added \cup {destination_relpath}, files, "OSError", FALSE)

\* RenderedPresentation.copy_file
copy_file(added, files, source_filename, destination_relpath, ok) ==
    IF destination_relpath \in added THEN Outcome(added, files, "none", FALSE)
    ELSE IF ~isfile(source_filename)
        THEN Outcome(added, files, "FileNotFoundError", FALSE)
    ELSE add_file(added, files, destination_relpath,
                  FileBytes(source_filename), ok)

\* RenderedPresentation.copy_template_file: the template is looked up first.
copy_template_file(added, files, template_filename, destination_relpath, ok) ==
    LET found_file == lookup_template_file(template_filename)
    IN  IF found_file.exc # "none"
            THEN Outcome(added, files, found_file.exc, FALSE)
        ELSE copy_file(added, files, found_file.value, destination_relpath, ok)

notDeploy == <<cacheVars, execVars, formulaVars, persistVars, lookupVars,
               presVars>>

\* The RenderedPresentation and the deploy directory after a call that left
\* outcome o for destination_relpath.
Deployed(o, destination_relpath) ==
    /\ added_files' = o.added
    /\ deployed' = o.files
    /\ firstOK' = IF o.wrote /\ destination_relpath \notin DOMAIN firstOK
                  THEN Put(firstOK, destination_relpath,
                           o.files[destination_relpath])
                  ELSE firstOK
    /\ writes' = IF o.wrote
                 THEN Put(writes, destination_relpath,
                          IF destination_relpath \in DOMAIN writes
                          THEN writes[destination_relpath] + 1 ELSE 1)
                 ELSE writes

\* Destination paths, contents and sources of the calls.
DestPaths == { <<"pybeamer.js">>, <<"style.css">> }
Contents == {"v1", "v2"}
SourceFiles == {"tpl/base/pybeamer.js", "inc/a.png", "tpl/missing"}
TemplateFiles == {"base/pybeamer.js", "default/style.css", "default/none.css"}
ImgSrcs == {"a.png", "copy.png", "b.jpg", "nope.png"}

AddFile(dest, content, ok) ==
    /\ ops < MaxOps
    /\ ops' = ops + 1
    /\ Deployed(add_file(added_files, deployed, dest, content, ok), dest)
    /\ UNCHANGED <<handled, image_max_dimension>>
    /\ UNCHANGED notDeploy

CopyFile(source, dest, ok) ==
    /\ ops < MaxOps
    /\ ops' = ops + 1
    /\ Deployed(copy_file(added_files, deployed, source, dest, ok), dest)
    /\ UNCHANGED <<handled, image_max_dimension>>
    /\ UNCHANGED notDeploy

CopyTemplateFile(template_filename, dest, ok) ==
    /\ ops < MaxOps
    /\ ops' = ops + 1
    /\ Deployed(copy_template_file(added_files, deployed, template_filename,
                                   dest, ok), dest)
    /\ UNCHANGED <<handled, image_max_dimension>>
    /\ UNCHANGED notDeploy

\* ImgHook.handle for a node whose src attribute is src.
ImgHookHandle(src, ok) ==
    /\ ops < MaxOps
    /\ ops' = ops + 1
    /\ LET found_file == lookup_include(src)
       IN  IF found_file.exc # "none"
           THEN UNCHANGED <<added_files, deployed, firstOK, writes, handled>>
           ELSE LET properties == [src |-> found_file.value,
                                   max_dimension |-> image_max_dimension]
                    rendered_image == img_renderer_render(properties)
                    local_filename ==
                        ImgHook_local_filename(properties, rendered_image)
                IN  /\ Deployed(add_file(added_files, deployed, local_filename,
                                         rendered_image.data.img_data, ok),
                                local_filename)
                    /\ handled' = handled \cup
                          { [src |-> properties.src,
                             max_dimension |-> properties.max_dimension,
                             keyhash |-> rendered_image.keyhash,
                             local_filename |-> local_filename] }
    /\ UNCHANGED image_max_dimension
    /\ UNCHANGED notDeploy

InitDeploy ==
    /\ CacheInit
    /\ ExecIdle
    /\ FormulaIdle
    /\ PersistIdle
    /\ LookupIdle
    /\ PresIdle
    /\ \E max_dimension \in MaxDimensions : DeployNew(max_dimension)

NextDeploy ==
    \/ \E dest \in DestPaths, content \in Contents, ok \in BOOLEAN :
          AddFile(dest, content, ok)
    \/ \E source \in SourceFiles, dest \in DestPaths, ok \in BOOLEAN :
          CopyFile(source, dest, ok)
    \/ \E tf \in TemplateFiles, dest \in DestPaths, ok \in BOOLEAN :
          CopyTemplateFile(tf, dest, ok)
    \/ \E src \in ImgSrcs, ok \in BOOLEAN : ImgHookHandle(src, ok)

SpecDeploy == InitDeploy /\ [][NextDeploy]_vars

\* The files an img node can resolve to.
IncludePaths == { p \in FilePaths : \E src \in ImgSrcs :
                    lookup_include(src) = Return(p) }

ImageCacheKey(src, max_dimension) ==
    CacheKey(ImageKeyMaterial([src |-> src, max_dimension |-> max_dimension]))

----------------------------------------------------------------------------
\* ExecRenderer.render called directly

\* Bound on the number of arguments of a command.
MaxArgs == 3

\* cmd[0] and the arguments after it.
Executables ==
    {"/bin/ls", "/bin/true", "true", "/opt/noexec", "/opt/badinterp",
     "/opt/missing"}
ExecArgs == {"/", "-l", "/missing"}

DirectCmds ==
    { <<e>> \o a : e \in Executables,
                   a \in UNION { [1..n -> ExecArgs] : n \in 0..MaxArgs } }

notExec == <<cacheVars, formulaVars, persistVars, lookupVars, deployVars,
             presVars>>

\* ExecRenderer().render({"cmd": cmd})
ExecRender(cmd) ==
    /\ xcmd' = cmd
    /\ xout' = ExecRenderer_render([cmd |-> cmd])
    /\ UNCHANGED notExec

NextExec == \E cmd \in DirectCmds : ExecRender(cmd)

SpecExec == Init /\ [][NextExec]_vars

\* C13: ExecRenderer.render returns a result only when the process was
\* started and exited with status 0; in every other case (the executable
\* cannot be started, for whatever reason, or it exits non-zero) it raises
\* FailedToExecuteSubprocessException and returns no result.
C13_FailsWithExecuteException ==
    xcmd # <<>> =>
        LET proc == subprocess_run(xcmd)
            ran == proc.exc = "none" /\ proc.value.returncode = 0
        IN  /\ xout.exc = "none" <=> ran
            /\ ~ran => /\ xout.exc = "FailedToExecuteSubprocessException"
                       /\ xout.value = NoData

----------------------------------------------------------------------------
\* LatexFormulaRenderer.render behind RendererCache

\* Bound on the number of formula render calls in one behaviour.
MaxRenders == 2

\* Requests: a formula, with short absent, True or False.
LatexRequests ==
    { [formula |-> f] : f \in Formulas }
    \cup { [formula |-> f, short |-> b] : f \in Formulas, b \in BOOLEAN }

\* A working directory that is removed only when the block ends normally.
TemporaryDirectory_exit_leaky(dirs, tex_dir, outcome) ==
    IF outcome.exc = "none" THEN dirs \ {tex_dir} ELSE dirs

\* tempfile.TemporaryDirectory.__exit__: the directory and what is in it are
\* removed, whether the with block returned or raised.
TemporaryDirectory_exit(dirs, tex_dir, outcome) == dirs \ {tex_dir}

\* The directory tempfile.TemporaryDirectory creates for the n-th render.
TexDir(n) == <<"pybeamer_formula_", n>>

\* The exception a failing step of render raises.
StepException(step) ==
    CASE step = "tex" -> "OSError"
      [] step = "info" -> "JSONDecodeError"
      [] OTHER -> "CalledProcessError"

FormulaResting == fpc \in {"idle", "returned", "raised"}

notFormula == <<cacheVars, execVars, persistVars, lookupVars, deployVars,
                presVars>>

\* RendererCache(LatexFormulaRenderer()).render(r) on a miss: the key is
\* derived, then LatexFormulaRenderer.render begins and creates its
\* temporary directory (or fails to).
FormulaRender(r, ok) ==
    /\ FormulaResting
    /\ renders < MaxRenders
    /\ renders' = renders + 1
    /\ freq' = r
    /\ fkeys' = Put(fkeys, r, CacheKey(KeyMaterial(LatexFormulaRenderer_name, r)))
    /\ IF ok
       THEN /\ tmpfs' = tmpfs \cup {TexDir(renders + 1)}
            /\ fpc' = "tex"
            /\ image' = Pending
       ELSE /\ tmpfs' = tmpfs
            /\ fpc' = "raised"
            /\ image' = Raise("OSError")
    /\ UNCHANGED notFormula

\* A step of the with block succeeds: formula.tex is written, pdflatex runs,
\* convert makes the PNG, _get_image_info measures the baseline.
FormulaStep ==
    /\ fpc \in {"tex", "pdflatex", "convert", "info"}
    /\ fpc' = CASE fpc = "tex" -> "pdflatex"
                [] fpc = "pdflatex" -> "convert"
                [] fpc = "convert" -> "info"
                [] fpc = "info" -> "crop"
    /\ UNCHANGED <<freq, fkeys, tmpfs, image, renders>>
    /\ UNCHANGED notFormula

\* The final convert succeeds and render reaches its return statement.
FormulaCrop ==
    /\ fpc = "crop"
    /\ fpc' = "exit"
    /\ image' = LatexFormulaRenderer_render(freq)
    /\ UNCHANGED <<freq, fkeys, tmpfs, renders>>
    /\ UNCHANGED notFormula

\* A step of the with block raises.
FormulaStepFails ==
    /\ fpc \in {"tex", "pdflatex", "convert", "info", "crop"}
    /\ fpc' = "exit"
    /\ image' = Raise(StepException(fpc))
    /\ UNCHANGED <<freq, fkeys, tmpfs, renders>>
    /\ UNCHANGED notFormula

\* The with block is left, by return or by exception.
FormulaExit ==
    /\ fpc = "exit"
    /\ tmpfs' = TemporaryDirectory_exit(tmpfs, TexDir(renders), image)
    /\ fpc' = IF image.exc = "none" THEN "returned" ELSE "raised"
    /\ UNCHANGED <<freq, fkeys, image, renders>>
    /\ UNCHANGED notFormula

NextFormula ==
    \/ \E r \in LatexRequests, ok \in BOOLEAN : FormulaRender(r, ok)
    \/ FormulaStep
    \/ FormulaCrop
    \/ FormulaStepFails
    \/ FormulaExit

SpecFormula == Init /\ [][NextFormula]_vars

\* C14: when LatexFormulaRenderer.render is over, by return or by an
\* exception of any of its steps, no "pybeamer_formula_" directory exists.
C14_NoTempDirLeft == FormulaResting => tmpfs = {}

\* A render that had created its directory ended with an exception of an
\* external tool.
C14_Witness ==
    /\ fpc = "raised"
    /\ image.exc = "CalledProcessError"
    /\ tmpfs = {}

\* C15: two formula requests get the same CacheKey exactly when they agree
\* on the formula text, on the effective short (absent means False) and on
\* the rendering DPI (one renderer, so one DPI).
C15_KeyByFormulaModeDpi ==
    \A r1, r2 \in DOMAIN fkeys :
        (fkeys[r1] = fkeys[r2])
          <=> (r1.formula = r2.formula /\ GetShort(r1) = GetShort(r2))

----------------------------------------------------------------------------
\* The JSON file of a RenderedLatexFormula

\* C16: the object read_jsonfile returns from the file x.write_jsonfile
\* wrote has the png_data of x byte for byte, a formula, image_info and
\* rendering_parameters equal to those of x, and so the cachekey of x.
C16_JsonRoundTrip ==
    ppc = "read" =>
        /\ robj.png_data = obj.png_data
        /\ robj.formula = obj.formula
        /\ DictEq(robj.image_info, obj.image_info)
        /\ DictEq(robj.rendering_parameters, obj.rendering_parameters)
        /\ cachekey(robj) = okey

\* An object whose image needs base64 padding and whose parameters hold a
\* bool and an int was written and read back.
C16_Witness ==
    /\ ppc = "read"
    /\ Len(obj.png_data) = 2
    /\ jsonfile.image[2] # obj.png_data
    /\ { item[2][1] : item \in Range(obj.rendering_parameters) } = {"bool", "int"}

----------------------------------------------------------------------------
\* Deployment of files

\* C17: within one RenderedPresentation every destination path is written
\* at most once, the deployed file holds the content of the first add_file
\* that wrote it, and a path is in _added_files only if its file was
\* actually written.
C17_WrittenOnceAndOnlyIfWritten ==
    \A d \in added_files \cup DOMAIN deployed :
        /\ d \in DOMAIN writes => writes[d] <= 1
        /\ d \in DOMAIN deployed => deployed[d] = firstOK[d]
        /\ d \in added_files => d \in DOMAIN deployed

----------------------------------------------------------------------------
\* PresentationRenderer._search_file called directly

\* Bound on the length of search_dirs.
MaxDirs == 3

SearchNames == {"a.png", "b.jpg", "nope.png", "base/pybeamer.js"}
SearchDirNames == {"inc", "inc2", "tpl"}
SearchDirLists == UNION { [1..n -> SearchDirNames] : n \in 0..MaxDirs }

notLookup == <<cacheVars, execVars, formulaVars, persistVars, deployVars,
               presVars>>

\* renderer._search_file(filename, search_dirs)
SearchFile(filename, search_dirs) ==
    /\ sfile' = filename
    /\ sdirs' = search_dirs
    /\ sout' = _search_file(filename, search_dirs)
    /\ UNCHANGED notLookup

NextLookup ==
    \E filename \in SearchNames, search_dirs \in SearchDirLists :
        SearchFile(filename, search_dirs)

SpecLookup == Init /\ [][NextLookup]_vars

\* Positions of search_dirs whose directory holds the file.
Holding(filename, search_dirs) ==
    { i \in 1..Len(search_dirs) : isfile(search_dirs[i] \o "/" \o filename) }

\* C18: _search_file returns dirname + "/" + filename for the first
\* directory of search_dirs, in order, in which that path is an existing
\* file, and raises FailedToLookupFileException exactly when no directory
\* holds the file (an empty search_dirs included).
C18_FirstDirectoryWins ==
    sfile # "" =>
        LET hits == Holding(sfile, sdirs)
        IN  IF hits = {}
            THEN sout.exc = "FailedToLookupFileException"
            ELSE /\ sout.exc = "none"
                 /\ \E i \in hits :
                       /\ \A j \in hits : i <= j
                       /\ sout.value = sdirs[i] \o "/" \o sfile

\* The file is missing from the first directory and present in two later
\* ones that hold different files.
C18_Witness ==
    /\ sfile = "a.png"
    /\ sdirs = <<"tpl", "inc2", "inc">>
    /\ sout.exc = "none"

----------------------------------------------------------------------------
\* PresentationRenderer.render

\* Bound on the number of directives of a presentation.
MaxDirectives == 3

\* TOCDirective(toc_element, value)
TOCDirectives ==
    { [type |-> "toc", toc_element |-> e, value |-> v] :
        e \in {"chapter"}, v \in {"A", "B"} }
    \cup { [type |-> "toc", toc_element |-> e, value |-> "A"] :
             e \in {"section", "subsection"} }

RenderableSlide(slide_type, content) ==
    [slide_type |-> slide_type, content |-> content]

\* Directives whose render yields renderable slides.
SlideDirectives ==
    { [type |-> "slide", yields |-> <<RenderableSlide("text", "s1")>>],
      [type |-> "slide", yields |-> <<RenderableSlide("title", "s2"),
                                      RenderableSlide("text", "s3")>>] }

Directives == TOCDirectives \cup SlideDirectives

Presentations == UNION { [1..n -> Directives] : n \in 0..MaxDirectives }

\* The "files" member of configuration.json.
TemplateConfigs ==
    [static : {<<>>, <<"logo.svg">>},
     css : {<<>>, <<"style.css">>, <<"pybeamer.css">>}]

\* A chapter that starts its sections and subsections afresh.
TOCDirective_render_reset(t, directive) ==
    IF directive.toc_element = "chapter"
    THEN [chapter |-> directive.value, section |-> Unset, subsection |-> Unset]
    ELSE [t EXCEPT ![directive.toc_element] = directive.value]

\* TOCDirective.render: the setter of the level named by toc_element.
TOCDirective_render(t, directive) ==
    [t EXCEPT ![directive.toc_element] = directive.value]

\* What directive.render(rendered_presentation) returns: None from a
\* TOCDirective, the slides from the others.
Generator(directive) ==
    IF directive.type = "toc" THEN [none |-> TRUE, slides |-> <<>>]
    ELSE [none |-> FALSE, slides |-> directive.yields]

\* Slides put in front of the ones collected so far.
ExtendSlides_front(slides, generator) ==
    IF generator.none THEN slides ELSE generator.slides \o slides

\* if generator is not None: renderable_slides += generator
ExtendSlides(slides, generator) ==
    IF generator.none THEN slides ELSE slides \o generator.slides

\* template.render(**args) of the template with this name.
TemplateRender(template_filename, args) == <<"html", template_filename, args>>

\* The result of rendering slide_<slide_type>.html for a slide.
RenderedSlide(slide) ==
    TemplateRender("slide_" \o slide.slide_type \o ".html", slide)

\* The last loop of render: template and target.
FinalFiles ==
    << <<"base/master.html", "index.html">>,
       <<"base/pybeamer.css", "pybeamer.css">> >>

notPres == <<cacheVars, execVars, formulaVars, persistVars, lookupVars>>

\* A file call of render left outcome o: render goes on to position next, or
\* ends with the exception.
RenderFile(o, dest, next, rest) ==
    /\ Deployed(o, dest)
    /\ IF o.exc = "none"
       THEN rpc' = next /\ todo' = rest
       ELSE rpc' = "failed" /\ todo' = <<>>
    /\ UNCHANGED <<handled, image_max_dimension, ops>>

\* render: the RenderedPresentation is created and pybeamer.js copied.
RenderBegin(ok) ==
    /\ rpc = "idle"
    /\ RenderFile(copy_template_file(added_files, deployed, "base/pybeamer.js",
                                     <<"pybeamer.js">>, ok),
                  <<"pybeamer.js">>, "static", template_config.static)
    /\ UNCHANGED <<presentation, template_config, renderable_slides,
                   rendered_slides, toc, css, slidesAtWrite>>
    /\ UNCHANGED notPres

\* One iteration of the loop over the static files.
RenderStatic(ok) ==
    /\ rpc = "static"
    /\ todo # <<>>
    /\ RenderFile(copy_template_file(added_files, deployed,
                                     template_style \o "/" \o Head(todo),
                                     <<Head(todo)>>, ok),
                  <<Head(todo)>>, "static", Tail(todo))
    /\ UNCHANGED <<presentation, template_config, renderable_slides,
                   rendered_slides, toc, css, slidesAtWrite>>
    /\ UNCHANGED notPres

\* One iteration of the loop over the css files.
RenderCss(ok) ==
    /\ rpc = "css"
    /\ todo # <<>>
    /\ LET o == copy_template_file(added_files, deployed,
                                   template_style \o "/" \o Head(todo),
                                   <<Head(todo)>>, ok)
       IN  /\ RenderFile(o, <<Head(todo)>>, "css", Tail(todo))
           /\ css' = IF o.exc = "none" THEN css \cup {Head(todo)} ELSE css
    /\ UNCHANGED <<presentation, template_config, renderable_slides,
                   rendered_slides, toc, slidesAtWrite>>
    /\ UNCHANGED notPres

\* One iteration of the loop of _compute_renderable_slides.
RenderDirective ==
    /\ rpc = "compute"
    /\ todo # <<>>
    /\ toc' = IF Head(todo).type = "toc" THEN TOCDirective_render(toc, Head(todo))
              ELSE toc
    /\ renderable_slides' = ExtendSlides(renderable_slides, Generator(Head(todo)))
    /\ todo' = Tail(todo)
    /\ UNCHANGED <<rpc, presentation, template_config, rendered_slides, css,
                   slidesAtWrite>>
    /\ UNCHANGED deployVars
    /\ UNCHANGED notPres

\* One iteration of the loop over the renderable slides.
RenderSlide ==
    /\ rpc = "slides"
    /\ todo # <<>>
    /\ rendered_slides' = Append(rendered_slides, RenderedSlide(Head(todo)))
    /\ todo' = Tail(todo)
    /\ UNCHANGED <<rpc, presentation, template_config, renderable_slides, toc,
                   css, slidesAtWrite>>
    /\ UNCHANGED deployVars
    /\ UNCHANGED notPres

\* One iteration of the loop over index.html and pybeamer.css.
RenderFinal(ok) ==
    /\ rpc = "final"
    /\ todo # <<>>
    /\ LET template_filename == Head(todo)[1]
           target_filename == Head(todo)[2]
           rendered_result == TemplateRender(template_filename, rendered_slides)
           o == add_file(added_files, deployed, <<target_filename>>,
                         rendered_result, ok)
       IN  /\ RenderFile(o, <<target_filename>>, "final", Tail(todo))
           /\ slidesAtWrite' = IF o.wrote
                               THEN Put(slidesAtWrite, target_filename,
                                        Len(rendered_slides))
                               ELSE slidesAtWrite
    /\ UNCHANGED <<presentation, template_config, renderable_slides,
                   rendered_slides, toc, css>>
    /\ UNCHANGED notPres

\* A loop of render has nothing left: render goes on after it.
RenderLoopEnds ==
    /\ rpc \in {"static", "css", "compute", "slides", "final"}
    /\ todo = <<>>
    /\ rpc' = CASE rpc = "static" -> "css"
                [] rpc = "css" -> "compute"
                [] rpc = "compute" -> "slides"
                [] rpc = "slides" -> "final"
                [] rpc = "final" -> "done"
    /\ todo' = CASE rpc = "static" -> template_config.css
                 [] rpc = "css" -> presentation
                 [] rpc = "compute" -> renderable_slides
                 [] rpc = "slides" -> FinalFiles
                 [] rpc = "final" -> <<>>
    /\ UNCHANGED <<presentation, template_config, renderable_slides,
                   rendered_slides, toc, css, slidesAtWrite>>
    /\ UNCHANGED deployVars
    /\ UNCHANGED notPres

InitPres ==
    /\ CacheInit
    /\ ExecIdle
    /\ FormulaIdle
    /\ PersistIdle
    /\ LookupIdle
    /\ DeployIdle
    /\ \E directives \in Presentations, files \in TemplateConfigs :
          PresNew(directives, files)

NextPres ==
    \/ \E ok \in BOOLEAN : RenderBegin(ok)
    \/ \E ok \in BOOLEAN : RenderStatic(ok)
    \/ \E ok \in BOOLEAN : RenderCss(ok)
    \/ RenderDirective
    \/ RenderSlide
    \/ \E ok \in BOOLEAN : RenderFinal(ok)
    \/ RenderLoopEnds

SpecPres == InitPres /\ [][NextPres]_vars


\* The renderable slides of the slide directives, in the order of the
\* directives and, within a directive, in the order it yields them.
RECURSIVE Flatten(_)
Flatten(directives) ==
    IF Len(directives) = 0 THEN <<>>
    ELSE IF Head(directives).type = "slide"
        THEN Head(directives).yields \o Flatten(Tail(directives))
    ELSE Flatten(Tail(directives))

\* The directives _compute_renderable_slides has rendered so far.
Processed ==
    CASE rpc = "compute" ->
            SubSeq(presentation, 1, Len(presentation) - Len(todo))
      [] rpc \in {"slides", "final", "done"} -> presentation
      [] OTHER -> <<>>

\* The value of the last TOC directive for a level, if there is one.
RECURSIVE LastValue(_, _)
LastValue(directives, level) ==
    IF Len(directives) = 0 THEN Unset
    ELSE LET last == directives[Len(directives)]
         IN  IF last.type = "toc" /\ last.toc_element = level THEN last.value
             ELSE LastValue(SubSeq(directives, 1, Len(directives) - 1), level)

\* The rendered slides are, one for one and in order, the renderings of the
\* slides the directives yield.
SlidesInOrder ==
    LET slides == Flatten(presentation)
        expected == [i \in 1..Len(slides) |-> RenderedSlide(slides[i])]
    IN  /\ rpc = "slides" =>
              rendered_slides = SubSeq(expected, 1, Len(slides) - Len(todo))
        /\ rpc \in {"final", "done"} => rendered_slides = expected

\* Every slide of the presentation has been appended.
AllAppended == Len(rendered_slides) = Len(Flatten(presentation))

\* C19 as stated: render preserves order: the rendered slides are in the
\* order of the directives and of each directive's slides, one per
\* renderable slide, and index.html and pybeamer.css are written only after
\* every slide has been appended.
C19_FilesWrittenAfterSlides ==
    /\ SlidesInOrder
    /\ \A target \in {"index.html", "pybeamer.css"} :
          <<target>> \in DOMAIN deployed => AllAppended

\* C19 amended: render preserves order: the rendered slides are in the order
\* of the directives and of each directive's slides, one per renderable
\* slide, and render writes its index.html and pybeamer.css only after every
\* slide has been appended; a file of either name deployed without that
\* write is a static or css file of the template configuration, copied
\* before the slides.
C19_SlidesInDirectiveOrder ==
    /\ SlidesInOrder
    /\ \A target \in DOMAIN slidesAtWrite :
          /\ slidesAtWrite[target] = Len(Flatten(presentation))
          /\ AllAppended
    /\ \A target \in {"index.html", "pybeamer.css"} :
          (<<target>> \in DOMAIN deployed /\ target \notin DOMAIN slidesAtWrite)
            => target \in Range(template_config.static)
                            \cup Range(template_config.css)

\* A presentation of a two-slide directive, a TOC directive and a one-slide
\* directive was rendered to the end.
C19_Witness ==
    /\ rpc = "done"
    /\ Len(presentation) = 3
    /\ presentation[1].type = "slide" /\ Len(presentation[1].yields) = 2
    /\ presentation[2].type = "toc"
    /\ presentation[3].type = "slide" /\ Len(presentation[3].yields) = 1
    /\ DOMAIN slidesAtWrite = {"index.html", "pybeamer.css"}

\* C20: a TOCDirective sets the one TOC level it names and leaves the other
\* two as they were, and yields no slide: at every point of the loop over
\* the directives each level holds the value of the last TOC directive
\* rendered for that level (none if there was none), and the slides
\* collected are those of the other directives.
C20_TocLevelHoldsLastValue ==
    rpc # "failed" =>
        /\ \A level \in {"chapter", "section", "subsection"} :
              toc[level] = LastValue(Processed, level)
        /\ rpc = "compute" => renderable_slides = Flatten(Processed)

\* A section was set between two chapters and is still there.
C20_Witness ==
    /\ rpc = "done"
    /\ Len(presentation) = 3
    /\ presentation[1].type = "toc" /\ presentation[1].toc_element = "chapter"
    /\ presentation[2].type = "toc" /\ presentation[2].toc_element = "section"
    /\ presentation[3].type = "toc" /\ presentation[3].toc_element = "chapter"
    /\ presentation[3].value # presentation[1].value
    /\ toc = [chapter |-> presentation[3].value, section |-> "A",
              subsection |-> Unset]

====
